---------------------------- MODULE Spec2Model ----------------------------
(* Karaty: content acquisition (src/utils/data.rs) and template          *)
(* resolution (src/pages/template.rs).                                   *)
(*                                                                       *)
(* Rust strings are sequences of one-character strings, so that          *)
(* to_lowercase, split and format! are computed character by character.  *)
(* Opaque texts that the code only passes along (page bodies, serde      *)
(* error messages) are TLA+ strings.                                     *)
EXTENDS Integers, Sequences, FiniteSets, TLC

VARIABLES
    config,     \* load_pages: the Config passed in
    pc,         \* position of the running operation
    listResp,   \* load_content_list: the response to the listing GET (a local)
    contents,   \* load_pages: `contents`, the listing
    log,        \* load_pages: one record per finished loop iteration
    result,     \* load_pages: `result`, the HashMap<String, String>
    rawArgs,    \* get_raw_data_url: (service, name, branch)
    rawUrl,     \* get_raw_data_url: its return value
    props,      \* DynamicTemplate: DynamicTemplateProps
    view,       \* DynamicTemplate: what was rendered
    styleCfg,   \* generate_prose_class: `config`
    class,      \* generate_prose_class: its return value
    cardSrc,    \* JsonCardList: `content`
    cardView    \* JsonCardList: what was rendered

vars == <<config, pc, listResp, contents, log, result, rawArgs, rawUrl,
          props, view, styleCfg, class, cardSrc, cardView>>

loadVars == <<config, listResp, contents, log, result>>
rawVars == <<rawArgs, rawUrl>>
templateVars == <<props, view>>
styleVars == <<styleCfg, class>>
cardVars == <<cardSrc, cardView>>

-----------------------------------------------------------------------------
(* Bounds *)

MaxList == 3        \* entries in a directory listing
MaxStyleKeys == 2   \* keys in a style table
MaxCards == 2       \* cards in one group of a card file

-----------------------------------------------------------------------------
(* Strings *)

UpperChars == <<"A","B","C","D","E","F","G","H","I","J","K","L","M",
                "N","O","P","Q","R","S","T","U","V","W","X","Y","Z">>
LowerChars == <<"a","b","c","d","e","f","g","h","i","j","k","l","m",
                "n","o","p","q","r","s","t","u","v","w","x","y","z">>

LowerChar(c) ==
    IF \E i \in 1..Len(UpperChars) : UpperChars[i] = c
    THEN LowerChars[CHOOSE i \in 1..Len(UpperChars) : UpperChars[i] = c]
    ELSE c

\* str::to_lowercase
ToLowercase(s) == [i \in 1..Len(s) |-> LowerChar(s[i])]

\* str::split(pat) for a one-character pattern, collected: the pieces between
\* the occurrences of pat. A string without pat is one piece, the empty string
\* included.
RECURSIVE SplitFrom(_, _, _)
SplitFrom(s, pat, cur) ==
    IF s = <<>> THEN <<cur>>
    ELSE IF Head(s) = pat
         THEN <<cur>> \o SplitFrom(Tail(s), pat, <<>>)
         ELSE SplitFrom(Tail(s), pat, Append(cur, Head(s)))

Split(s, pat) == SplitFrom(s, pat, <<>>)

\* Iterator::last
Last(seq) == seq[Len(seq)]

S_github == <<"g","i","t","h","u","b">>
S_gitee == <<"g","i","t","e","e">>
S_gitlab == <<"g","i","t","l","a","b">>
S_independent == <<"i","n","d","e","p","e","n","d","e","n","t","-","r","e","p","o","s","i","t","o","r","y">>
S_subpath == <<"s","u","b","-","p","a","t","h">>
S_pages == <<"p","a","g","e","s">>

-----------------------------------------------------------------------------
(* toml::Value *)

TString(s) == [t |-> "String", s |-> s]
TInteger(i) == [t |-> "Integer", i |-> i]
TBoolean(b) == [t |-> "Boolean", b |-> b]
TTable(m) == [t |-> "Table", m |-> m]

\* source.get(k).unwrap().as_str().unwrap() does not panic
HasStr(m, k) == k \in DOMAIN m /\ m[k].t = "String"

-----------------------------------------------------------------------------
(* src/utils/data.rs *)

None == [some |-> FALSE, v |-> <<>>]
Some(x) == [some |-> TRUE, v |-> x]

get_raw_data_url_no_lowercase(service, name, branch) ==
    IF service = S_github
    THEN Some(<<"h","t","t","p","s",":","/","/","r","a","w",".","g","i","t","h","u","b","u","s","e","r","c","o","n","t","e","n","t",".","c","o","m","/">>
              \o name \o <<"/">> \o branch)
    ELSE IF service = S_gitee
    THEN Some(<<"h","t","t","p","s",":","/","/","g","i","t","e","e",".","c","o","m","/">>
              \o name \o <<"/","r","a","w","/">> \o branch)
    ELSE None

get_raw_data_url(service, name, branch) ==
    LET s == ToLowercase(service) IN
    IF s = S_github
    THEN Some(<<"h","t","t","p","s",":","/","/","r","a","w",".","g","i","t","h","u","b","u","s","e","r","c","o","n","t","e","n","t",".","c","o","m","/">>
              \o name \o <<"/">> \o branch)
    ELSE IF s = S_gitee
    THEN Some(<<"h","t","t","p","s",":","/","/","g","i","t","e","e",".","c","o","m","/">>
              \o name \o <<"/","r","a","w","/">> \o branch)
    ELSE None

\* What load_from_source does before it awaits: "panic" (an unwrap or the
\* expect fails), "err" (Unknown load mode) or "get" with the URL of the GET.
Panic == [r |-> "panic", url |-> <<>>]
UnknownLoadMode == [r |-> "err", url |-> <<>>]
Get(url) == [r |-> "get", url |-> url]

IndependentUrlWithSeparator(raw_url, sub_path) == raw_url \o <<"/">> \o sub_path

IndependentUrl(raw_url, sub_path) == raw_url \o sub_path

SubPathUrl(raw_url, sub_folder, sub_path) ==
    raw_url \o <<"/">> \o sub_folder \o <<"/">> \o sub_path

SourceRequest(cfg, sub_path) ==
    LET source_mode == ToLowercase(cfg.data_source.mode)
        source_data == cfg.data_source.data
    IN  IF source_mode = S_independent
        THEN IF source_data.t # "Table" THEN Panic
             ELSE LET source == source_data.m IN
                  IF ~(HasStr(source, "service") /\ HasStr(source, "name")
                       /\ HasStr(source, "branch"))
                  THEN Panic
                  ELSE LET raw_url == get_raw_data_url(source["service"].s,
                                                    source["name"].s,
                                                    source["branch"].s)
                       IN  IF ~raw_url.some THEN Panic
                           ELSE Get(IndependentUrl(raw_url.v, sub_path))
        ELSE IF source_mode = S_subpath
        THEN LET source == cfg.repository IN
             IF source_data.t # "String" THEN Panic
             ELSE LET raw_url == get_raw_data_url(source.service, source.name,
                                               source.branch)
                  IN  IF ~raw_url.some THEN Panic
                      ELSE Get(SubPathUrl(raw_url.v, source_data.s, sub_path))
        ELSE UnknownLoadMode

\* A response of gloo's Request::send().await followed by reading the body:
\* "error" is Err (the fetch itself or the read of the body failed), anything
\* the server answered is Ok, whatever its status.
NetError == [kind |-> "error", status |-> 0, body |-> ""]
NoResponse == [kind |-> "none", status |-> 0, body |-> ""]
Response(status, body) == [kind |-> "response", status |-> status, body |-> body]

Err(url) == [r |-> "Err", url |-> url, content |-> ""]
Ok(url, content) == [r |-> "Ok", url |-> url, content |-> content]
Panicked == [r |-> "panic", url |-> <<>>, content |-> ""]

\* load_from_source, given the network's answer to its one GET.
load_from_source(cfg, sub_path, net) ==
    LET req == SourceRequest(cfg, sub_path) IN
    IF req.r = "panic" THEN Panicked
    ELSE IF req.r = "err" THEN Err(<<>>)
    ELSE IF net.kind = "error" THEN Err(req.url)
    ELSE Ok(req.url, net.body)

\* The `target` of load_content_list, or a panic.
ListTarget(cfg, sub_path) ==
    LET source_mode == ToLowercase(cfg.data_source.mode)
        source_data == cfg.data_source.data
        api == <<"h","t","t","p","s",":","/","/","a","p","i",".","g","i","t","h","u","b",".","c","o","m","/","r","e","p","o","s","/">>
        cts == <<"/","c","o","n","t","e","n","t","s","/">>
        ref == <<"?","r","e","f","=">>
    IN  IF source_mode = S_independent
        THEN IF source_data.t # "Table" THEN Panic
             ELSE LET source == source_data.m IN
                  IF ~(HasStr(source, "name") /\ HasStr(source, "branch"))
                  THEN Panic
                  ELSE Get(api \o source["name"].s \o cts \o sub_path
                           \o ref \o source["branch"].s)
        ELSE IF source_mode = S_subpath
        THEN LET source == cfg.repository IN
             IF source_data.t # "String" THEN Panic
             ELSE Get(api \o source.name \o cts \o source_data.s \o <<"/">>
                      \o sub_path \o ref \o source.branch)
        ELSE Panic

\* serde_json::Value of the listing's entries
JString(s) == [j |-> "string", s |-> s]
JNumber == [j |-> "number", n |-> 1]
JObject(m) == [j |-> "object", m |-> m]

S_file == <<"f","i","l","e">>

\* data.get(k).unwrap().as_str().unwrap() does not panic
JHasStr(data, k) == data.j = "object" /\ k \in DOMAIN data.m /\ data.m[k].j = "string"

\* The loop over the parsed list: the names pushed, or a panic at the first
\* entry an unwrap fails on.
RECURSIVE FileNames(_, _)
FileNames(list, acc) ==
    IF list = <<>> THEN [panic |-> FALSE, names |-> acc]
    ELSE LET data == Head(list) IN
         IF ~JHasStr(data, "type") THEN [panic |-> TRUE, names |-> <<>>]
         ELSE IF data.m["type"].s = S_file
              THEN IF ~JHasStr(data, "name") THEN [panic |-> TRUE, names |-> <<>>]
                   ELSE FileNames(Tail(list), Append(acc, data.m["name"].s))
              ELSE FileNames(Tail(list), acc)

\* The body of a listing response, as resp.json::<Vec<Value>>() sees it:
\* "array" parses, everything else is Err.
JsonArray(items) == [json |-> "array", items |-> items]
JsonOther == [json |-> "other", items |-> <<>>]

\* load_content_list, given the network's answer to its one GET.
load_content_list(cfg, sub_path, net) ==
    LET target == ListTarget(cfg, sub_path) IN
    IF target.r = "panic" THEN [panic |-> TRUE, names |-> <<>>]
    ELSE IF net.kind = "error" THEN [panic |-> FALSE, names |-> <<>>]
    ELSE IF net.body.json # "array" THEN [panic |-> FALSE, names |-> <<>>]
    ELSE FileNames(net.body.items, <<>>)

(* Inputs of load_pages *)

N_site == <<"a","c","m","e","/","s","i","t","e">>
N_web == <<"a","c","m","e","/","w","e","b">>
N_main == <<"m","a","i","n">>
N_folder == <<"d","o","c","s">>

Repository(service) == [service |-> service, name |-> N_web, branch |-> N_main]

SourceTable(service) ==
    TTable([k \in {"service", "name", "branch"} |->
              IF k = "service" THEN TString(service)
              ELSE IF k = "name" THEN TString(N_site) ELSE TString(N_main)])

Cfg(mode, data, service) ==
    [data_source |-> [mode |-> mode, data |-> data], repository |-> Repository(service)]

Configs ==
    { Cfg(S_independent, SourceTable(S_github), S_github),
      Cfg(<<"I","n","d","e","p","e","n","d","e","n","t","-","R","e","p","o","s","i","t","o","r","y">>,
          SourceTable(<<"G","i","t","e","e">>), S_github),
      Cfg(S_subpath, TString(N_folder), S_github),
      Cfg(S_subpath, TString(N_folder), S_gitlab),
      Cfg(S_independent, SourceTable(S_gitlab), S_github),
      Cfg(S_independent,
          TTable([k \in {"name", "branch"} |->
                    IF k = "name" THEN TString(N_site) ELSE TString(N_main)]),
          S_github),
      Cfg(S_independent,
          TTable([k \in {"service", "name", "branch"} |->
                    IF k = "branch" THEN TInteger(1) ELSE TString(N_site)]),
          S_github),
      Cfg(S_independent, TString(N_folder), S_github),
      Cfg(S_subpath, SourceTable(S_github), S_github),
      Cfg(<<"l","o","c","a","l">>, TString(N_folder), S_github) }

F_a == <<"a",".","m","d">>
F_b == <<"b",".","j","s","o","n">>
F_c == <<"c",".","t","x","t">>

Entry(type, name) ==
    JObject([k \in {"type", "name"} |-> IF k = "type" THEN type ELSE name])

Entries ==
    { Entry(JString(S_file), JString(F_a)),
      Entry(JString(S_file), JString(F_b)),
      Entry(JString(S_file), JString(F_c)),
      Entry(JString(<<"d","i","r">>), JString(<<"i","m","g">>)),
      Entry(JString(S_file), JNumber),
      JObject([k \in {"name"} |-> JString(F_a)]) }

SeqsUpTo(S, n) == UNION { [1..k -> S] : k \in 0..n }

ListResponses ==
    {NetError}
    \cup { Response(st, JsonOther) : st \in {200, 404} }
    \cup { Response(st, JsonArray(items)) :
             st \in {200, 403}, items \in SeqsUpTo(Entries, MaxList) }

PageResponses ==
    { NetError, Response(200, "# Title"), Response(404, "404: Not Found") }

\* format!("/pages/{name}")
PagePath(name) == <<"/">> \o S_pages \o <<"/">> \o name

InitLoad ==
    /\ config \in Configs
    /\ pc = "list"
    /\ listResp = NoResponse
    /\ contents = <<>>
    /\ log = <<>>
    /\ result = <<>>

\* load_pages up to the return of load_content_list(config, "pages")
ListFiles ==
    /\ pc = "list"
    /\ \E net \in ListResponses :
         LET r == load_content_list(config, S_pages, net) IN
         /\ listResp' = net
         /\ contents' = r.names
         /\ pc' = IF r.panic THEN "list_panicked" ELSE "listed"
    /\ UNCHANGED <<config, log, result>>

\* HashMap::insert
Insert(map, k, v) == [x \in (DOMAIN map) \cup {k} |-> IF x = k THEN v ELSE map[x]]

\* One iteration of the loop of load_pages
LoadPage ==
    /\ pc \in {"listed", "loop"}
    /\ Len(log) < Len(contents)
    /\ \E net \in PageResponses :
         LET name == contents[Len(log) + 1]
             content == load_from_source(config, PagePath(name), net)
         IN  /\ log' = Append(log, [name |-> name, net |-> net, ret |-> content])
             /\ result' = IF content.r = "Ok"
                          THEN Insert(result, name, content.content)
                          ELSE result
             /\ pc' = IF content.r = "panic" THEN "load_panicked" ELSE "loop"
    /\ listResp' = NoResponse
    /\ UNCHANGED <<config, contents>>

\* load_pages returns `result`
ReturnPages ==
    /\ pc \in {"listed", "loop"}
    /\ Len(log) = Len(contents)
    /\ pc' = "done"
    /\ listResp' = NoResponse
    /\ UNCHANGED <<config, contents, log, result>>

-----------------------------------------------------------------------------
(* get_raw_data_url on its own *)

Services ==
    { S_github, <<"G","i","t","H","u","b">>, <<"G","I","T","H","U","B">>,
      S_gitee, <<"G","i","t","e","e">>, S_gitlab, <<>>,
      <<"g","i","t","h","u","b","x">>, <<"g","i","t">> }

RepoNames == { N_site, N_web, <<"x">> }
Branches == { N_main, <<"d","e","v">>, <<"v","1",".","0">> }

InitRaw ==
    /\ rawArgs \in Services \X RepoNames \X Branches
    /\ rawUrl = None
    /\ pc = "raw"

CallGetRawDataUrl ==
    /\ pc = "raw"
    /\ rawUrl' = get_raw_data_url(rawArgs[1], rawArgs[2], rawArgs[3])
    /\ pc' = "raw_done"
    /\ UNCHANGED rawArgs

-----------------------------------------------------------------------------
(* src/pages/template.rs: generate_prose_class *)

AVAILABLE_STYLE_SETTINGS == <<
    <<"h","e","a","d","i","n","g","s">>,
    <<"l","e","a","d">>,
    <<"h","1">>,
    <<"h","2">>,
    <<"h","3">>,
    <<"h","4">>,
    <<"p">>,
    <<"a">>,
    <<"b","l","o","c","k","q","u","o","t","e">>,
    <<"f","i","g","u","r","e">>,
    <<"f","i","g","c","a","p","t","i","o","n">>,
    <<"s","t","r","o","n","g">>,
    <<"e","m">>,
    <<"c","o","d","e">>,
    <<"p","r","e">>,
    <<"o","l">>,
    <<"u","l">>,
    <<"l","i">>,
    <<"t","a","b","l","e">>,
    <<"t","h","e","a","d">>,
    <<"t","r">>,
    <<"t","h">>,
    <<"t","d">>,
    <<"i","m","g">>,
    <<"v","i","d","e","o">>,
    <<"h","r">> >>

ProseBase == <<"p","r","o","s","e"," ","p","r","o","s","e","-","s","m"," ","s","m",":","p","r","o","s","e","-","b","a","s","e"," ","d","a","r","k",":","p","r","o","s","e","-","i","n","v","e","r","t">>

\* [&str]::join
RECURSIVE Join(_, _)
Join(list, sep) ==
    IF list = <<>> THEN <<>>
    ELSE IF Len(list) = 1 THEN list[1]
    ELSE list[1] \o sep \o Join(Tail(list), sep)

ProsePrefix(i) == <<" ","p","r","o","s","e","-">> \o i \o <<":">>

\* What one catalog slot with the string value v pushes on `res`, with every
\* token of the value kept.
SlotClassAllTokens(i, v) ==
    LET list == Split(v, " ") IN ProsePrefix(i) \o Join(list, <<" ">>)

\* What one catalog slot with the string value v pushes on `res`.
SlotClass(i, v) ==
    LET list == Split(v, " ") IN
    IF Len(list) >= 1
    THEN ProsePrefix(i) \o list[1]
    ELSE Join(list, ProsePrefix(i)) \o <<" ">>

RECURSIVE ProseClassFrom(_, _, _)
ProseClassFrom(cfg, n, res) ==
    IF n > Len(AVAILABLE_STYLE_SETTINGS) THEN res
    ELSE LET i == AVAILABLE_STYLE_SETTINGS[n] IN
         IF i \in DOMAIN cfg /\ cfg[i].t = "String"
         THEN ProseClassFrom(cfg, n + 1, res \o SlotClass(i, cfg[i].s))
         ELSE ProseClassFrom(cfg, n + 1, res)

generate_prose_class(cfg) == ProseClassFrom(cfg, 1, ProseBase)

K_h1 == <<"h","1">>
K_a == <<"a">>
K_hr == <<"h","r">>
K_headings == <<"h","e","a","d","i","n","g","s">>
K_h7 == <<"h","7">>

V_two == <<"t","e","x","t","-","x","l"," ","e","x","t","r","a">>
V_one == <<"t","e","x","t","-","x","l">>

StyleKeys == { K_headings, K_h1, K_a, K_hr, K_h7 }

StyleValues ==
    { TString(V_two), TString(V_one), TString(<<>>),
      TString(<<" ","l","e","a","d">>), TInteger(1) }

StyleTables ==
    UNION { [ks -> StyleValues] :
              ks \in { x \in SUBSET StyleKeys : Cardinality(x) <= MaxStyleKeys } }

InitStyle ==
    /\ styleCfg \in StyleTables
    /\ class = <<>>
    /\ pc = "style"

CallGenerateProseClass ==
    /\ pc = "style"
    /\ class' = generate_prose_class(styleCfg)
    /\ pc' = "style_done"
    /\ UNCHANGED styleCfg

-----------------------------------------------------------------------------
(* src/pages/template.rs: JsonCardList *)

\* A page's content, as serde_json reads it: text that is no JSON at all, or a
\* JSON object given by its members in the order of the text. Markdown is text
\* that is no JSON.
NotJson == [syntax |-> "invalid", members |-> <<>>]
JsonMembers(members) == [syntax |-> "valid", members |-> members]

JArray(items) == [j |-> "array", items |-> items]

DeErr(msg) == [ok |-> FALSE, msg |-> msg, v |-> <<>>]
DeOk(v) == [ok |-> TRUE, msg |-> "", v |-> v]

CardFields == <<"title", "url", "content", "footnote">>

\* CardInfo's derived Deserialize, of a JSON object or scalar: fields it does
\* not name are ignored.
DeCardInfo(v) ==
    IF v.j # "object" THEN DeErr("invalid type: expected struct CardInfo")
    ELSE IF \E i \in 1..Len(CardFields) :
                CardFields[i] \in DOMAIN v.m /\ v.m[CardFields[i]].j # "string"
    THEN DeErr("invalid type: expected a string")
    ELSE IF \E i \in 1..Len(CardFields) : CardFields[i] \notin DOMAIN v.m
    THEN DeErr("missing field")
    ELSE DeOk([title |-> v.m["title"].s, url |-> v.m["url"].s,
               content |-> v.m["content"].s, footnote |-> v.m["footnote"].s])

\* Vec<CardInfo>, with the cards that do not deserialize left out.
RECURSIVE DeCardsSkipping(_, _)
DeCardsSkipping(items, acc) ==
    IF items = <<>> THEN DeOk(acc)
    ELSE LET c == DeCardInfo(Head(items)) IN
         IF ~c.ok THEN DeCardsSkipping(Tail(items), acc)
         ELSE DeCardsSkipping(Tail(items), Append(acc, c.v))

\* Vec<CardInfo>: the first card that does not deserialize is the error.
RECURSIVE DeCards(_, _)
DeCards(items, acc) ==
    IF items = <<>> THEN DeOk(acc)
    ELSE LET c == DeCardInfo(Head(items)) IN
         IF ~c.ok THEN c
         ELSE DeCards(Tail(items), Append(acc, c.v))

\* HashMap<String, Vec<CardInfo>>: members are read in order, a later member
\* of the same name replaces the earlier one.
RECURSIVE DeGroups(_, _)
DeGroups(members, acc) ==
    IF members = <<>> THEN DeOk(acc)
    ELSE LET name == Head(members)[1]
             value == Head(members)[2]
         IN  IF value.j # "array" THEN DeErr("invalid type: expected a sequence")
             ELSE LET cs == DeCards(value.items, <<>>) IN
                  IF ~cs.ok THEN cs
                  ELSE DeGroups(Tail(members), Insert(acc, name, cs.v))

\* serde_json::from_str::<HashMap<String, Vec<CardInfo>>>
FromStr(content) ==
    IF content.syntax # "valid" THEN DeErr("expected value at line 1 column 1")
    ELSE DeGroups(content.members, <<>>)

\* The orders data.iter() may visit the groups in.
IterOrders(map) ==
    { o \in [1..Cardinality(DOMAIN map) -> DOMAIN map] :
        \A a, b \in DOMAIN o : a # b => o[a] # o[b] }

RenderOrders(content) ==
    LET data == FromStr(content) IN
    IF data.ok THEN IterOrders(data.v) ELSE { <<>> }

\* JsonCardList, with the order its HashMap iterates in.
JsonCardList(content, order) ==
    LET data == FromStr(content) IN
    IF ~data.ok
    THEN [render |-> "Error", title |-> "JSON Parse failed", content |-> data.msg]
    ELSE [render |-> "JsonCardList",
          groups |-> [n \in 1..Len(order) |->
                        [group |-> order[n], cards |-> data.v[order[n]]]]]

Card(title, footnote) ==
    JObject([k \in {"title", "url", "content", "footnote"} |->
               IF k = "title" THEN title
               ELSE IF k = "footnote" THEN footnote
               ELSE JString(k)])

JsonCards ==
    { Card(JString("A"), JString("f")),
      JObject([k \in {"title", "url", "content", "footnote", "icon"} |-> JString("B")]),
      JObject([k \in {"title", "url", "content"} |-> JString("C")]),
      Card(JNumber, JString("f")) }

GroupValues ==
    { JString("cards") } \cup { JArray(items) : items \in SeqsUpTo(JsonCards, MaxCards) }

GroupMembers == { <<g, v>> : g \in {"Docs", "Links"}, v \in GroupValues }

SecondMembers ==
    { <<g, JArray(items)>> :
        g \in {"Docs", "Links"},
        items \in { <<Card(JString("A"), JString("f"))>>,
                    <<Card(JString("D"), JString("g")), Card(JString("A"), JString("f"))>>,
                    <<Card(JString("A"), JNumber)>> } }

CardFiles ==
    { NotJson, JsonMembers(<<>>) }
    \cup { JsonMembers(<<m>>) : m \in GroupMembers }
    \cup { JsonMembers(<<m, n>>) : m \in GroupMembers, n \in SecondMembers }

InitCards ==
    /\ cardSrc \in CardFiles
    /\ cardView = [render |-> "none"]
    /\ pc = "cards"

RenderJsonCardList ==
    /\ pc = "cards"
    /\ \E order \in RenderOrders(cardSrc) : cardView' = JsonCardList(cardSrc, order)
    /\ pc' = "cards_done"
    /\ UNCHANGED cardSrc

-----------------------------------------------------------------------------
(* src/pages/template.rs: DynamicTemplate and CenterMarkdown *)

\* CenterMarkdown: the class and the two flags it renders with. The HTML is
\* parse_markdown's, which the model leaves out.
CenterMarkdown(content, cfg) ==
    [render |-> "CenterMarkdown",
     content |-> content,
     class |-> IF "style" \in DOMAIN cfg /\ cfg["style"].t = "Table"
               THEN generate_prose_class(cfg["style"].m)
               ELSE ProseBase,
     hide_navbar |-> IF "hide-navbar" \in DOMAIN cfg /\ cfg["hide-navbar"].t = "Boolean"
                     THEN cfg["hide-navbar"].b ELSE FALSE,
     hide_footer |-> IF "hide-footer" \in DOMAIN cfg /\ cfg["hide-footer"].t = "Boolean"
                     THEN cfg["hide-footer"].b ELSE FALSE]

S_md == <<"m","d">>
S_json == <<"j","s","o","n">>
S_center == <<"c","e","n","t","e","r">>
S_cards == <<"c","a","r","d","s">>

\* The local `using` before the match on the suffix.
Using(template) ==
    IF "using" \notin DOMAIN template THEN <<>>
    ELSE IF template["using"].t = "String" THEN template["using"].s
    ELSE <<>>

\* A dispatch that lets `using` choose the renderer.
DispatchByUsing(suffix, using, content, template, order) ==
    IF suffix \in {S_md, S_json}
    THEN IF using = S_cards \/ (using = <<>> /\ suffix = S_json)
         THEN JsonCardList(content, order)
         ELSE CenterMarkdown(content, template)
    ELSE [render |-> "NotFound"]

\* The match on the suffix; both inner matches on `using` have one arm that
\* takes every value.
Dispatch(suffix, using, content, template, order) ==
    IF suffix = S_md
    THEN LET using1 == IF using = <<>> THEN S_center ELSE using IN
         CenterMarkdown(content, template)
    ELSE IF suffix = S_json
    THEN LET using1 == IF using = <<>> THEN S_cards ELSE using IN
         JsonCardList(content, order)
    ELSE [render |-> "NotFound"]

DynamicTemplate(p, order) ==
    LET suffix == Last(Split(p.name, "."))
        template == IF p.template.some THEN p.template.v
                    ELSE TTable([k \in {"using"} |-> TString(<<>>)])
    IN  IF template.t # "Table" THEN [render |-> "panic"]
        ELSE Dispatch(suffix, Using(template.m), p.content, template.m, order)

PageNames ==
    { F_a, F_b, F_c, S_md, S_json, <<"i","n","d","e","x">>,
      <<"a",".","b",".","m","d">>, <<"x",".">>, <<"a",".","M","D">>,
      <<".","j","s","o","n">> }

PageContents ==
    { NotJson,
      JsonMembers(<< <<"Docs", JArray(<<Card(JString("A"), JString("f"))>>)>> >>) }

EmptyTable == [k \in {} |-> TString(<<>>)]
H1Style == TTable([k \in {K_h1} |-> TString(V_two)])

Templates ==
    { None,
      Some(TTable(EmptyTable)),
      Some(TTable([k \in {"using"} |-> TString(<<>>)])),
      Some(TTable([k \in {"using"} |-> TString(S_center)])),
      Some(TTable([k \in {"using"} |-> TString(S_cards)])),
      Some(TTable([k \in {"using"} |-> TString(<<"g","r","i","d">>)])),
      Some(TTable([k \in {"using"} |-> TInteger(1)])),
      Some(TTable([k \in {"using", "style"} |->
                     IF k = "using" THEN TString(S_cards) ELSE H1Style])),
      Some(TTable([k \in {"style", "hide-navbar"} |->
                     IF k = "style" THEN H1Style ELSE TBoolean(TRUE)])),
      Some(TTable([k \in {"style", "hide-footer"} |->
                     IF k = "style" THEN TString(V_one) ELSE TBoolean(TRUE)])),
      Some(TString(S_center)) }

InitTemplate ==
    /\ props \in [name : PageNames, content : PageContents, template : Templates]
    /\ view = [render |-> "none"]
    /\ pc = "template"

RenderDynamicTemplate ==
    /\ pc = "template"
    /\ \E order \in RenderOrders(props.content) : view' = DynamicTemplate(props, order)
    /\ pc' = "template_done"
    /\ UNCHANGED props

-----------------------------------------------------------------------------
(* Specifications *)

IdleLoad ==
    /\ config = Cfg(S_independent, SourceTable(S_github), S_github)
    /\ listResp = NoResponse
    /\ contents = <<>>
    /\ log = <<>>
    /\ result = <<>>

IdleRaw == rawArgs = <<<<>>, <<>>, <<>>>> /\ rawUrl = None
IdleTemplate == props = [idle |-> TRUE] /\ view = [render |-> "none"]
IdleStyle == styleCfg = <<>> /\ class = <<>>
IdleCards == cardSrc = [idle |-> TRUE] /\ cardView = [render |-> "none"]

Init == InitLoad /\ IdleRaw /\ IdleTemplate /\ IdleStyle /\ IdleCards

Next ==
    \/ ListFiles /\ UNCHANGED <<rawVars, templateVars, styleVars, cardVars>>
    \/ LoadPage /\ UNCHANGED <<rawVars, templateVars, styleVars, cardVars>>
    \/ ReturnPages /\ UNCHANGED <<rawVars, templateVars, styleVars, cardVars>>

Spec == Init /\ [][Next]_vars

InitUrl == IdleLoad /\ InitRaw /\ IdleTemplate /\ IdleStyle /\ IdleCards

NextUrl == CallGetRawDataUrl /\ UNCHANGED <<loadVars, templateVars, styleVars, cardVars>>

SpecUrl == InitUrl /\ [][NextUrl]_vars

InitProse == IdleLoad /\ IdleRaw /\ IdleTemplate /\ InitStyle /\ IdleCards

NextProse == CallGenerateProseClass /\ UNCHANGED <<loadVars, rawVars, templateVars, cardVars>>

SpecProse == InitProse /\ [][NextProse]_vars

InitCardList == IdleLoad /\ IdleRaw /\ IdleTemplate /\ IdleStyle /\ InitCards

NextCardList == RenderJsonCardList /\ UNCHANGED <<loadVars, rawVars, templateVars, styleVars>>

SpecCardList == InitCardList /\ [][NextCardList]_vars

InitResolver == IdleLoad /\ IdleRaw /\ InitTemplate /\ IdleStyle /\ IdleCards

NextResolver == RenderDynamicTemplate /\ UNCHANGED <<loadVars, rawVars, styleVars, cardVars>>

SpecResolver == InitResolver /\ [][NextResolver]_vars

-----------------------------------------------------------------------------
(* Claims about load_pages, load_content_list and load_from_source *)

\* The mode names one of the two modes and the payload has the mode's shape.
ConfigWellFormed ==
    LET mode == ToLowercase(config.data_source.mode)
        data == config.data_source.data
    IN  \/ /\ mode = S_independent
           /\ data.t = "Table"
           /\ \A k \in {"service", "name", "branch"} :
                k \in DOMAIN data.m /\ data.m[k].t = "String"
        \/ mode = S_subpath /\ data.t = "String"

IsFileEntry(e) ==
    /\ e.j = "object"
    /\ "type" \in DOMAIN e.m
    /\ e.m["type"] = JString(S_file)

EntryWellShaped(e) ==
    /\ e.j = "object"
    /\ \A k \in {"type", "name"} : k \in DOMAIN e.m /\ e.m[k].j = "string"

ListingSucceeded ==
    /\ ConfigWellFormed
    /\ listResp.kind = "response"
    /\ listResp.status = 200
    /\ listResp.body.json = "array"
    /\ \A i \in 1..Len(listResp.body.items) : EntryWellShaped(listResp.body.items[i])

NamesOf(items) ==
    LET files == SelectSeq(items, IsFileEntry)
    IN  [i \in 1..Len(files) |-> files[i].m["name"].s]

\* C1: load_pages never fails because of one file: whatever each fetch does,
\* it returns, and the keys of the mapping it returns are exactly the listed
\* names whose fetch succeeded.
C1_LoadPagesNeverFails ==
    /\ pc # "load_panicked"
    /\ pc = "done" =>
         DOMAIN result = { log[i].name : i \in { j \in 1..Len(log) : log[j].ret.r = "Ok" } }

\* C2: load_content_list never panics, returns the empty list on every
\* failure, and the names of the "file" entries when the listing succeeds.
C2_ListFilesNeverFails ==
    pc \in {"listed", "list_panicked"} =>
        /\ pc = "listed"
        /\ contents = IF ListingSucceeded THEN NamesOf(listResp.body.items) ELSE <<>>

Success2xx(net) == net.kind = "response" /\ net.status \in 200..299

\* C3: load_from_source returns Ok only for a GET answered with a 2xx status,
\* so load_pages never stores the body of a non-2xx answer.
C3_OnlySuccessStatusStored ==
    \A i \in 1..Len(log) :
        /\ log[i].ret.r = "Ok" => Success2xx(log[i].net)
        /\ (log[i].name \in DOMAIN result
            /\ \A j \in (i + 1)..Len(log) : log[j].name # log[i].name
            /\ ~Success2xx(log[i].net)) => log[i].ret.r # "Ok"

\* C4: every URL load_from_source requests is {base}/{sub_folder}/{sub_path}
\* in sub-path mode, with the base of config.repository, and {base}{sub_path}
\* in independent-repository mode, with the base of data_source.data; github,
\* acme/site, main and /pages/a.md give
\* https://raw.githubusercontent.com/acme/site/main/pages/a.md.
C4_RequestedUrl ==
    \A i \in 1..Len(log) :
        LET url == log[i].ret.url
            sub_path == <<"/","p","a","g","e","s","/">> \o log[i].name
            mode == ToLowercase(config.data_source.mode)
            data == config.data_source.data
            repo == config.repository
        IN  log[i].ret.r \in {"Ok", "Err"} =>
              /\ mode = S_subpath =>
                    url = get_raw_data_url(repo.service, repo.name, repo.branch).v
                          \o <<"/">> \o data.s \o <<"/">> \o sub_path
              /\ mode = S_independent =>
                    url = get_raw_data_url(data.m["service"].s, data.m["name"].s,
                                        data.m["branch"].s).v \o sub_path
              /\ (config = Cfg(S_independent, SourceTable(S_github), S_github)
                  /\ log[i].name = F_a) =>
                    url = <<"h","t","t","p","s",":","/","/","r","a","w",".","g","i","t","h","u","b","u","s","e","r","c","o","n","t","e","n","t",".","c","o","m","/","a","c","m","e","/","s","i","t","e","/","m","a","i","n","/","p","a","g","e","s","/","a",".","m","d">>

C4_Witness ==
    /\ pc = "done"
    /\ ToLowercase(config.data_source.mode) = S_independent
    /\ \E i \in 1..Len(log) : log[i].name = F_a /\ log[i].ret.r = "Ok"
    /\ \E i \in 1..Len(log) : log[i].ret.r = "Err"

C4_WitnessSubPath ==
    /\ pc = "done"
    /\ ToLowercase(config.data_source.mode) = S_subpath
    /\ \E i \in 1..Len(log) : log[i].ret.r = "Ok"

-----------------------------------------------------------------------------
(* Claims about get_raw_data_url *)

\* s and t are the same string up to the case of ASCII letters.
EqIgnoreCase(s, t) ==
    /\ Len(s) = Len(t)
    /\ \A i \in 1..Len(s) :
         \/ s[i] = t[i]
         \/ \E k \in 1..Len(UpperChars) :
              {s[i], t[i]} = {UpperChars[k], LowerChars[k]}

\* C5: get_raw_data_url matches the service against github and gitee without
\* regard to case; github gives https://raw.githubusercontent.com/{name}/{branch},
\* gitee gives https://gitee.com/{name}/raw/{branch}, and every other service
\* gives None.
C5_RawBase ==
    pc = "raw_done" =>
        LET service == rawArgs[1]
            name == rawArgs[2]
            branch == rawArgs[3]
        IN  IF EqIgnoreCase(service, S_github)
            THEN /\ rawUrl.some
                 /\ rawUrl.v = <<"h","t","t","p","s",":","/","/","r","a","w",".","g","i","t","h","u","b","u","s","e","r","c","o","n","t","e","n","t",".","c","o","m","/">> \o name \o <<"/">> \o branch
            ELSE IF EqIgnoreCase(service, S_gitee)
            THEN /\ rawUrl.some
                 /\ rawUrl.v = <<"h","t","t","p","s",":","/","/","g","i","t","e","e",".","c","o","m","/">> \o name \o <<"/","r","a","w","/">> \o branch
            ELSE ~rawUrl.some

C5_Witness ==
    /\ pc = "raw_done"
    /\ rawArgs[1] = <<"G","i","t","H","u","b">>
    /\ rawArgs[2] = N_site
    /\ rawUrl.some

-----------------------------------------------------------------------------
(* Claims about generate_prose_class *)

\* The value up to its first space.
FirstToken(v) ==
    LET spaces == { k \in 1..Len(v) : v[k] = " " }
        stop == IF spaces = {} THEN Len(v) + 1
                ELSE CHOOSE k \in spaces : \A m \in spaces : k <= m
    IN  SubSeq(v, 1, stop - 1)

RECURSIVE ExpectedClass(_, _)
ExpectedClass(cfg, n) ==
    IF n = 0 THEN <<"p","r","o","s","e"," ","p","r","o","s","e","-","s","m"," ","s","m",":","p","r","o","s","e","-","b","a","s","e"," ","d","a","r","k",":","p","r","o","s","e","-","i","n","v","e","r","t">>
    ELSE LET slot == AVAILABLE_STYLE_SETTINGS[n] IN
         ExpectedClass(cfg, n - 1)
         \o (IF slot \in DOMAIN cfg /\ cfg[slot].t = "String"
             THEN <<" ","p","r","o","s","e","-">> \o slot \o <<":">>
                  \o FirstToken(cfg[slot].s)
             ELSE <<>>)

Contains(s, sub) ==
    \E k \in 0..(Len(s) - Len(sub)) : SubSeq(s, k + 1, k + Len(sub)) = sub

\* C7: generate_prose_class returns the base class followed, for each of the
\* 26 catalog slots in catalog order that the table holds with a string value,
\* by " prose-{slot}:{first token of the value}", and by nothing else;
\* {h1: "text-xl extra"} gives " prose-h1:text-xl" and no "extra".
C7_ProseClass ==
    pc = "style_done" =>
        /\ Len(AVAILABLE_STYLE_SETTINGS) = 26
        /\ class = ExpectedClass(styleCfg, 26)
        /\ (K_h1 \in DOMAIN styleCfg /\ styleCfg[K_h1] = TString(V_two)) =>
              /\ Contains(class, <<" ","p","r","o","s","e","-","h","1",":","t","e","x","t","-","x","l">>)
              /\ ~Contains(class, <<"e","x","t","r","a">>)

C7_Witness ==
    /\ pc = "style_done"
    /\ DOMAIN styleCfg = {K_h1, K_headings}
    /\ styleCfg[K_h1] = TString(V_two)
    /\ styleCfg[K_headings] = TString(V_one)

\* C10: a catalog slot whose value is the empty string changes nothing: the
\* class of the table is the class of the table without that slot.
C10_EmptyValueIsNoOp ==
    pc = "style_done" =>
        \A s \in DOMAIN styleCfg :
            (styleCfg[s] = TString(<<>>)
             /\ \E n \in 1..Len(AVAILABLE_STYLE_SETTINGS) : AVAILABLE_STYLE_SETTINGS[n] = s)
            => class = generate_prose_class([k \in (DOMAIN styleCfg) \ {s} |-> styleCfg[k]])

-----------------------------------------------------------------------------
(* Claims about JsonCardList *)

CardWellTyped(v) ==
    /\ v.j = "object"
    /\ \A f \in {"title", "url", "content", "footnote"} :
         f \in DOMAIN v.m /\ v.m[f].j = "string"

\* The content is a JSON object of arrays of cards.
Deserializes(content) ==
    /\ content.syntax = "valid"
    /\ \A n \in 1..Len(content.members) :
         /\ content.members[n][2].j = "array"
         /\ \A k \in 1..Len(content.members[n][2].items) :
              CardWellTyped(content.members[n][2].items[k])

\* The items of the last member named g.
LastItems(content, g) ==
    LET at == { n \in 1..Len(content.members) : content.members[n][1] = g }
        last == CHOOSE n \in at : \A m \in at : m <= n
    IN  content.members[last][2].items

\* C8: content that does not deserialize gives the parse-failed outcome with a
\* non-empty message, never cards; content that deserializes gives one
\* rendered group per group name, its cards in the order they were parsed.
C8_CardList ==
    pc = "cards_done" =>
        IF ~Deserializes(cardSrc)
        THEN /\ cardView.render = "Error"
             /\ cardView.title = "JSON Parse failed"
             /\ cardView.content # ""
        ELSE /\ cardView.render = "JsonCardList"
             /\ { cardView.groups[n].group : n \in 1..Len(cardView.groups) }
                  = { cardSrc.members[n][1] : n \in 1..Len(cardSrc.members) }
             /\ \A a, b \in 1..Len(cardView.groups) :
                  a # b => cardView.groups[a].group # cardView.groups[b].group
             /\ \A n \in 1..Len(cardView.groups) :
                  LET items == LastItems(cardSrc, cardView.groups[n].group)
                      cards == cardView.groups[n].cards
                  IN  /\ Len(cards) = Len(items)
                      /\ \A k \in 1..Len(items) :
                           /\ cards[k].title = items[k].m["title"].s
                           /\ cards[k].url = items[k].m["url"].s
                           /\ cards[k].content = items[k].m["content"].s
                           /\ cards[k].footnote = items[k].m["footnote"].s

C8_Witness ==
    /\ pc = "cards_done"
    /\ cardView.render = "JsonCardList"
    /\ \E n \in 1..Len(cardView.groups) :
         /\ Len(cardView.groups[n].cards) = 2
         /\ cardView.groups[n].cards[1].title # cardView.groups[n].cards[2].title

C8_WitnessParseFailed ==
    /\ pc = "cards_done"
    /\ cardSrc.syntax = "valid"
    /\ cardView.render = "Error"

-----------------------------------------------------------------------------
(* Claims about DynamicTemplate *)

HasDot(name) == \E k \in 1..Len(name) : name[k] = "."

\* The substring after the last "." of the name; empty when there is none.
SuffixAfterLastDot(name) ==
    LET dots == { k \in 1..Len(name) : name[k] = "." } IN
    IF dots = {} THEN <<>>
    ELSE SubSeq(name, (CHOOSE k \in dots : \A m \in dots : m <= k) + 1, Len(name))

TemplateIsTable == ~props.template.some \/ props.template.v.t = "Table"

\* C6: whatever the template-config (absent, without `using`, `using` any
\* string or no string), a name with the suffix md renders CenterMarkdown
\* (with the default class when the config has no style table), a name with
\* the suffix json renders JsonCardList, and a name with any other suffix
\* renders the fixed not-found text.
C6_SuffixDecides ==
    (pc = "template_done" /\ TemplateIsTable) =>
        LET suffix == SuffixAfterLastDot(props.name) IN
        /\ suffix = S_md =>
             /\ view.render = "CenterMarkdown"
             /\ (~props.template.some \/ "style" \notin DOMAIN props.template.v.m)
                  => view.class = <<"p","r","o","s","e"," ","p","r","o","s","e","-","s","m"," ","s","m",":","p","r","o","s","e","-","b","a","s","e"," ","d","a","r","k",":","p","r","o","s","e","-","i","n","v","e","r","t">>
        /\ suffix = S_json => view.render \in {"JsonCardList", "Error"}
        /\ (HasDot(props.name) /\ suffix \notin {S_md, S_json}) =>
             view.render = "NotFound"

C6_Witness ==
    /\ pc = "template_done"
    /\ props.name = F_a
    /\ props.template.some
    /\ props.template.v.t = "Table"
    /\ "using" \in DOMAIN props.template.v.m
    /\ props.template.v.m["using"] = TString(S_cards)
    /\ view.render = "CenterMarkdown"

\* C9: a page name without a "." has the empty suffix and renders the
\* not-found text, the names md and json included.
C9_NoDotIsNotFound ==
    (pc = "template_done" /\ TemplateIsTable /\ ~HasDot(props.name)) =>
        view.render = "NotFound"

=============================================================================
